---- MODULE Spec2Model ----
(***************************************************************************)
(* Model of the task orchestration of src/src/main.rs: the consumer        *)
(* (Visualizer::update, one call per UI frame), the five mpsc channels,    *)
(* the background tasks it spawns (client init, search, single download,   *)
(* bulk download) and the media directory on the filesystem.               *)
(*                                                                         *)
(* The consumer runs on the UI thread and the tasks on the tokio runtime,  *)
(* so every channel operation and every filesystem operation of a task is  *)
(* one step. A call of update is two steps: the five try_recv calls that   *)
(* open it, then the handler of the button clicked in that frame, if any.  *)
(*                                                                         *)
(* Video ids come from the remote listing and are well formed, so          *)
(* Video::new_with_options(..).expect(..) (main.rs:274-278, 329-333) does  *)
(* not panic in this model.                                                *)
(***************************************************************************)
EXTENDS Naturals, Sequences, FiniteSets, TLC

\* ------------------------------------------------------------------ bounds

\* Search tasks spawned over a run.
MaxSearches == 2

\* Download tasks (single-item and bulk) spawned over a run.
MaxDownloads == 2

\* ------------------------------------------------------------ option values

\* Rust's Option<T>: None is the empty tuple, Some(x) the one-element tuple.
None == << >>

Some(x) == << x >>

IsSome(o) == o # None

Unwrap(o) == o[1]

\* ------------------------------------------------------------ the universe

\* Playlist ids the user can type into the text field.
PlaylistIds == {"PL1", "PL2"}

\* Video ids the remote listing knows.
VideoIds == {"v1", "v2"}

\* The continuation token the remote listing returns with a first page.
Tok2 == "tok2"

\* enum DownloadStatus
DownloadStatus == {"Idle", "Pending", "Downloading", "Finished", "Failed"}

\* PathBuf::from(format!(concat!(env!("CARGO_MANIFEST_DIR"), "/youtube/{}.mp4"), id))
PathOf(id) == << "youtube", id, "mp4" >>

Paths == { PathOf(id) : id \in VideoIds }

\* What a file of the media directory holds.
FileStates == {"absent", "empty", "partial", "full"}

VARIABLES
  upc,                     \* position of the consumer inside update
  clicked,                 \* the button handled in the current frame, if any
  current_playlist_id,     \* Visualizer.current_playlist_id
  current_page_cursor,     \* Visualizer.current_page_cursor
  current_downloaded_path, \* Visualizer.current_downloaded_path
  yt_client,               \* Visualizer.yt_client
  playlist_info,           \* Visualizer.playlist_info
  playlist_videos_info,    \* Visualizer.playlist_videos_info
  download_status,         \* Visualizer.download_status
  current_watching_path,   \* Visualizer.current_watching_path
  video_player,            \* Visualizer.video_player
  chan_client,             \* channel::<YouTubeClient>
  chan_info,               \* channel::<PlaylistInfo>
  chan_videos,             \* channel::<PlaylistVideos>
  chan_path,               \* channel::<PathBuf>
  chan_status,             \* channel::<DownloadStatus>
  client_task,             \* the client init task spawned by main
  tasks,                   \* the tasks spawned by update, in spawn order
  fs                       \* the media directory: path -> file state

consumer == << current_playlist_id, current_page_cursor, current_downloaded_path,
               yt_client, playlist_info, playlist_videos_info, download_status,
               current_watching_path, video_player >>

chans == << chan_client, chan_info, chan_videos, chan_path, chan_status >>

frame == << upc, clicked >>

vars == << frame, consumer, chans, client_task, tasks, fs >>

\* ------------------------------------------------------- filesystem helpers

\* Path::exists
Exists(path) == fs[path] # "absent"

\* Mutant of WriteEmpty: the write is left out.
WriteNothing(path) == fs

\* std::fs::write(&path, b""): creates the file or truncates it to zero length.
WriteEmpty(path) == [fs EXCEPT ![path] = "empty"]

\* --------------------------------------------------- the remote collaborator

\* A thumbnails value of the remote API, as nested options:
\* thumbnails?.default?.url?
ThumbnailShapes(url) ==
  { None,
    Some([default |-> None]),
    Some([default |-> Some([url |-> None])]),
    Some([default |-> Some([url |-> Some(url)])]) }

\* Replies of playlists().list().add_id(pl).doit(): a failed call, a reply
\* without items, an empty item list, or one item whose snippet and whose
\* snippet fields may each be missing.
PlaylistReplies(pl) ==
  { [ok |-> FALSE, items |-> None],
    [ok |-> TRUE, items |-> None],
    [ok |-> TRUE, items |-> Some(<< >>)] }
  \cup
  ( IF pl \in PlaylistIds
    THEN { [ok |-> TRUE, items |-> Some(<< [snippet |-> s] >>)] :
             s \in {None} \cup
               { Some([title |-> t, channel_id |-> c]) :
                   t \in {None, Some(<< "title", pl >>)},
                   c \in {None, Some(<< "channel", pl >>)} } }
    ELSE {} )

\* Replies of channels().list().add_id(user_id).doit().
ChannelReplies(user_id) ==
  { [ok |-> FALSE, items |-> None],
    [ok |-> TRUE, items |-> None],
    [ok |-> TRUE, items |-> Some(<< >>)] }
  \cup
  { [ok |-> TRUE, items |-> Some(<< [snippet |-> s] >>)] :
      s \in {None} \cup
        { Some([title |-> t, thumbnails |-> th]) :
            t \in {None, Some(<< "name", user_id >>)},
            th \in ThumbnailShapes(<< "avatar", user_id >>) } }

\* A well-formed item of a playlist listing.
GoodItem(v) ==
  [ snippet |-> Some([ title |-> Some(<< "title", v >>),
                       thumbnails |-> Some([default |-> Some([url |-> Some(<< "thumb", v >>)])]) ]),
    content_details |-> Some([video_id |-> Some(v)]) ]

\* Items of a listing that miss a required field.
NoDetailsItem(v) == [GoodItem(v) EXCEPT !.content_details = None]

NoTitleItem(v) ==
  [GoodItem(v) EXCEPT !.snippet = Some([ title |-> None,
                                         thumbnails |-> Some([default |-> Some([url |-> Some(<< "thumb", v >>)])]) ])]

\* The remote's pages: each playlist has a first page, which carries a
\* continuation token, and a last page, reached with that token.
RemoteItems(pl, token) ==
  IF pl \notin PlaylistIds THEN << >>
  ELSE IF token = None
       THEN IF pl = "PL1" THEN << GoodItem("v1"), NoDetailsItem("v2"), GoodItem("v2") >>
                          ELSE << GoodItem("v2"), NoTitleItem("v1") >>
       ELSE << >>

RemoteNext(pl, token) ==
  IF pl \in PlaylistIds /\ token = None THEN Some(Tok2) ELSE None

\* Replies of playlist_items().list().playlist_id(pl)[.page_token(token)].doit().
PageReplies(pl, token) ==
  { [ok |-> FALSE, items |-> None, next_page_token |-> None],
    [ok |-> TRUE, items |-> None, next_page_token |-> RemoteNext(pl, token)],
    [ok |-> TRUE, items |-> Some(RemoteItems(pl, token)),
     next_page_token |-> RemoteNext(pl, token)] }

\* ------------------------------------------------------------ the fetchers

\* fetch_channel after its await: the ?-chain over the reply.
FetchChannel(reply, user_id) ==
  IF ~reply.ok THEN None
  ELSE IF reply.items = None THEN None
  ELSE IF Unwrap(reply.items) = << >> THEN None
  ELSE LET channel == Unwrap(reply.items)[1] IN
    IF channel.snippet = None THEN None
    ELSE LET snippet == Unwrap(channel.snippet) IN
      IF snippet.title = None THEN None
      ELSE IF snippet.thumbnails = None THEN None
      ELSE IF Unwrap(snippet.thumbnails).default = None THEN None
      ELSE IF Unwrap(Unwrap(snippet.thumbnails).default).url = None THEN None
      ELSE Some([ id |-> user_id,
                  name |-> Unwrap(snippet.title),
                  avatar_url |-> Unwrap(Unwrap(Unwrap(snippet.thumbnails).default).url) ])

\* fetch_playlist_info from its first await up to the call of fetch_channel:
\* the title and the channel id it goes on with, or None when it returns None.
PlaylistSnippetOf(reply) ==
  IF ~reply.ok THEN None
  ELSE IF reply.items = None THEN None
  ELSE IF Unwrap(reply.items) = << >> THEN None
  ELSE LET playlist == Unwrap(reply.items)[1] IN
    IF playlist.snippet = None THEN None
    ELSE LET snippet == Unwrap(playlist.snippet) IN
      IF snippet.title = None THEN None
      ELSE IF snippet.channel_id = None THEN None
      ELSE Some([title |-> Unwrap(snippet.title), channel_id |-> Unwrap(snippet.channel_id)])

\* Mutant of PlaylistInfoOf: a missing channel is replaced by a default one
\* (unwrap_or_default) instead of ending the fetch.
PlaylistInfoOrDefault(playlist_id, snip, channel_reply) ==
  LET channel == FetchChannel(channel_reply, snip.channel_id) IN
    Some([ id |-> playlist_id, title |-> snip.title,
           channel |-> IF channel = None
                       THEN [id |-> snip.channel_id, name |-> << >>, avatar_url |-> << >>]
                       ELSE Unwrap(channel) ])

\* fetch_playlist_info after fetch_channel returned: the PlaylistInfo, or None.
PlaylistInfoOf(playlist_id, snip, channel_reply) ==
  LET channel == FetchChannel(channel_reply, snip.channel_id) IN
    IF channel = None THEN None
    ELSE Some([id |-> playlist_id, title |-> snip.title, channel |-> Unwrap(channel)])

\* The closure of filter_map in fetch_video_page_with_cursor.
VideoOfItem(item) ==
  IF item.snippet = None THEN None
  ELSE LET snippet == Unwrap(item.snippet) IN
    IF item.content_details = None THEN None
    ELSE IF Unwrap(item.content_details).video_id = None THEN None
    ELSE IF snippet.title = None THEN None
    ELSE IF snippet.thumbnails = None THEN None
    ELSE IF Unwrap(snippet.thumbnails).default = None THEN None
    ELSE IF Unwrap(Unwrap(snippet.thumbnails).default).url = None THEN None
    ELSE Some([ id |-> Unwrap(Unwrap(item.content_details).video_id),
                title |-> Unwrap(snippet.title),
                thumbnail_url |-> Unwrap(Unwrap(Unwrap(snippet.thumbnails).default).url) ])

\* Iterator::filter_map(f).collect() over a sequence.
RECURSIVE FilterMapVideos(_)
FilterMapVideos(items) ==
  IF items = << >> THEN << >>
  ELSE LET v == VideoOfItem(Head(items)) IN
    IF v = None THEN FilterMapVideos(Tail(items))
    ELSE << Unwrap(v) >> \o FilterMapVideos(Tail(items))

\* The query fetch_video_page_with_cursor builds: page_token is set only
\* for Some(cursor).
PageQuery(playlist_id, cursor) ==
  [playlist_id |-> playlist_id, page_token |-> IF cursor # None THEN Some(Unwrap(cursor)) ELSE None]

\* fetch_video_page_with_cursor after its await.
FetchVideoPage(reply) ==
  IF ~reply.ok THEN None
  ELSE IF reply.items = None THEN None
  ELSE Some([ videos |-> FilterMapVideos(Unwrap(reply.items)),
              next_cursor |-> reply.next_page_token ])

\* The ids of a page's videos, in order.
VideoIdsOf(page) == [i \in 1..Len(page.videos) |-> page.videos[i].id]

\* ------------------------------------------------------------------- tasks

\* A spawned task: its kind, its position, what it captured when it was
\* spawned, the reply it is processing, and the statuses it has put on the
\* download-status channel so far (log; for a bulk request this includes the
\* Pending its click handler sent).
\*   search: yt_client (its clone of the handle), playlist_id, cursor; query
\*           is the listing query it has issued;
\*           seen_next is the next_cursor of the page the consumer displayed
\*           when the task was spawned; replies_carry_info records what the
\*           remote answered to fetch_playlist_info once it has.
\*   single: id, path.
\*   bulk:   items (the id_path_map, in page order), st (one state per item).
BlankTask ==
  [ kind |-> "none", pc |-> "start",
    yt_client |-> "",
    playlist_id |-> "", cursor |-> None, seen_next |-> None,
    query |-> None, replies_carry_info |-> None,
    id |-> "", path |-> << >>,
    items |-> << >>, st |-> << >>,
    log |-> << >> ]

\* A task that has ended holds nothing any more: what stays of it is its
\* kind, how it ended, and the record of what it sent and of its batch.
Ended(task, pc) ==
  [ BlankTask EXCEPT !.kind = task.kind, !.pc = pc, !.log = task.log,
                     !.items = task.items, !.st = task.st ]

TaskIds == DOMAIN tasks

\* tokio::spawn: the new task is the last of tasks.
Spawn(task) == Append(tasks, task)

\* The tasks spawned so far by the search button, and by the two download
\* buttons.
Searches == { t \in TaskIds : tasks[t].kind = "search" }

Downloads == { t \in TaskIds : tasks[t].kind \in {"single", "bulk"} }

\* -------------------------------------------------------------------- Init

\* The state main builds (main.rs:36-73): empty channels, the client init
\* task spawned, every consumer field at its initial value. The media
\* directory is empty (a first run).
Init ==
  /\ upc = "poll"
  /\ clicked = None
  /\ current_playlist_id = ""
  /\ current_page_cursor = None
  /\ current_downloaded_path = None
  /\ yt_client = None
  /\ playlist_info = None
  /\ playlist_videos_info = None
  /\ download_status = "Idle"
  /\ current_watching_path = None
  /\ video_player = None
  /\ chan_client = << >>
  /\ chan_info = << >>
  /\ chan_videos = << >>
  /\ chan_path = << >>
  /\ chan_status = << >>
  /\ client_task = "fetching"
  /\ tasks = << >>
  /\ fs = [p \in Paths |-> "absent"]

\* ------------------------------------------------------ the client init task

\* main.rs:43: fetch_youtube_client returned; the client is sent.
ClientInitSend ==
  /\ client_task = "fetching"
  /\ chan_client' = Append(chan_client, "client")
  /\ client_task' = "done"
  /\ UNCHANGED << frame, consumer, chan_info, chan_videos, chan_path, chan_status, tasks, fs >>

\* main.rs:385-404: one of the expect calls of fetch_youtube_client panics
\* (a missing environment variable, a failed authentication): the task ends
\* and sends nothing.
ClientInitPanic ==
  /\ client_task = "fetching"
  /\ client_task' = "panicked"
  /\ UNCHANGED << frame, consumer, chans, tasks, fs >>

\* ------------------------------------------------------- update: the polls

\* Mutant of StatusOnRead: the received status is stored as it is.
StatusOnReadKept(received) == received

\* The transform of the status poll: Finished is stored as Idle.
StatusOnRead(received) == IF received = "Finished" THEN "Idle" ELSE received

\* Mutant of PollClient: the field is assigned the result of the poll
\* whether or not there is one (try_recv().ok().map(Arc::new)).
PollClientAssigns ==
  IF chan_client # << >>
  THEN /\ yt_client' = Some(Head(chan_client))
       /\ chan_client' = Tail(chan_client)
  ELSE /\ yt_client' = None
       /\ UNCHANGED chan_client

\* main.rs:129-131
PollClient ==
  IF chan_client # << >>
  THEN /\ yt_client' = Some(Head(chan_client))
       /\ chan_client' = Tail(chan_client)
  ELSE UNCHANGED << yt_client, chan_client >>

\* Mutant of PollInfo: the channel is read with recv, which waits for a
\* message.
PollInfoBlocks ==
  /\ chan_info # << >>
  /\ playlist_info' = Some(Head(chan_info))
  /\ chan_info' = Tail(chan_info)

\* main.rs:133-135
PollInfo ==
  IF chan_info # << >>
  THEN /\ playlist_info' = Some(Head(chan_info))
       /\ chan_info' = Tail(chan_info)
  ELSE UNCHANGED << playlist_info, chan_info >>

\* main.rs:137-139
PollVideos ==
  IF chan_videos # << >>
  THEN /\ playlist_videos_info' = Some(Head(chan_videos))
       /\ chan_videos' = Tail(chan_videos)
  ELSE UNCHANGED << playlist_videos_info, chan_videos >>

\* Mutant of PollStatus: the poll drains the channel (while let) and keeps
\* the last status.
PollStatusDrains ==
  IF chan_status # << >>
  THEN /\ download_status' = IF chan_status[Len(chan_status)] = "Finished" THEN "Idle"
                              ELSE chan_status[Len(chan_status)]
       /\ chan_status' = << >>
  ELSE UNCHANGED << download_status, chan_status >>

\* Mutant of PollStatus: a poll that finds the channel empty resets the
\* stored status.
PollStatusResets ==
  IF chan_status # << >>
  THEN /\ download_status' = StatusOnRead(Head(chan_status))
       /\ chan_status' = Tail(chan_status)
  ELSE /\ download_status' = "Idle"
       /\ UNCHANGED chan_status

\* main.rs:141-147
PollStatus ==
  IF chan_status # << >>
  THEN /\ download_status' = StatusOnRead(Head(chan_status))
       /\ chan_status' = Tail(chan_status)
  ELSE UNCHANGED << download_status, chan_status >>

\* Mutant of PollPath: a player is opened for every received path, without
\* the test of current_watching_path.
PollPathReopens ==
  IF chan_path # << >>
  THEN LET downloaded_path == Head(chan_path) IN
       /\ chan_path' = Tail(chan_path)
       /\ \E player_ok \in BOOLEAN :
            IF player_ok
            THEN /\ video_player' = Some(<< "player", downloaded_path >>)
                 /\ current_watching_path' = Some(downloaded_path)
            ELSE UNCHANGED << video_player, current_watching_path >>
       /\ current_downloaded_path' = Some(downloaded_path)
  ELSE UNCHANGED << chan_path, video_player, current_watching_path, current_downloaded_path >>

\* main.rs:149-158. Player::new succeeds or fails.
PollPath ==
  IF chan_path # << >>
  THEN LET downloaded_path == Head(chan_path) IN
       /\ chan_path' = Tail(chan_path)
       /\ IF current_watching_path = None
          THEN \E player_ok \in BOOLEAN :
                 IF player_ok
                 THEN /\ video_player' = Some(<< "player", downloaded_path >>)
                      /\ current_watching_path' = Some(downloaded_path)
                 ELSE UNCHANGED << video_player, current_watching_path >>
          ELSE UNCHANGED << video_player, current_watching_path >>
       /\ current_downloaded_path' = Some(downloaded_path)
  ELSE UNCHANGED << chan_path, video_player, current_watching_path, current_downloaded_path >>

\* main.rs:129-158: update opens with one try_recv on each channel.
Poll ==
  /\ upc = "poll"
  /\ upc' = "ui"
  /\ clicked' = None
  /\ PollClient
  /\ PollInfo
  /\ PollVideos
  /\ PollStatus
  /\ PollPath
  /\ UNCHANGED << current_playlist_id, current_page_cursor, client_task, tasks, fs >>

\* ----------------------------------------------- update: the button handlers

\* The frame ends with no button clicked.
UiIdle ==
  /\ upc = "ui"
  /\ upc' = "poll"
  /\ clicked' = None
  /\ UNCHANGED << consumer, chans, client_task, tasks, fs >>

\* main.rs:163: the user edits the playlist id field.
UiEditPlaylistId(playlist_id) ==
  /\ upc = "ui"
  /\ upc' = "poll"
  /\ clicked' = << "edit", playlist_id >>
  /\ current_playlist_id # playlist_id
  /\ current_playlist_id' = playlist_id
  /\ UNCHANGED << current_page_cursor, current_downloaded_path, yt_client, playlist_info,
                  playlist_videos_info, download_status, current_watching_path, video_player,
                  chans, client_task, tasks, fs >>

\* The task main.rs:176-192 spawns, as the search handler builds it.
SearchTask ==
  [ BlankTask EXCEPT !.kind = "search", !.pc = "info",
                     !.yt_client = Unwrap(yt_client),
                     !.playlist_id = current_playlist_id,
                     !.cursor = current_page_cursor,
                     !.seen_next = IF playlist_videos_info = None THEN None
                                   ELSE Unwrap(playlist_videos_info).next_cursor ]

\* main.rs:165-193: the search button. Without a client the handler returns.
UiSearch ==
  /\ upc = "ui"
  /\ upc' = "poll"
  /\ clicked' = << "search" >>
  /\ IF yt_client = None
     THEN UNCHANGED tasks
     ELSE /\ Cardinality(Searches) < MaxSearches
          /\ tasks' = Spawn(SearchTask)
  /\ UNCHANGED << consumer, chans, client_task, fs >>

\* main.rs:207-211: the back button, shown while a player is present.
UiBack ==
  /\ upc = "ui"
  /\ upc' = "poll"
  /\ clicked' = << "back" >>
  /\ video_player # None
  /\ current_watching_path' = None
  /\ video_player' = None
  /\ UNCHANGED << current_playlist_id, current_page_cursor, current_downloaded_path,
                  yt_client, playlist_info, playlist_videos_info, download_status,
                  chans, client_task, tasks, fs >>

\* The page's buttons are drawn only without a player (main.rs:213-216) and
\* with a page (main.rs:238).
PageShown == video_player = None /\ playlist_videos_info # None

\* Mutant of MissingIds: the existence filter is left out.
MissingIdsUnfiltered(ids) == ids

\* main.rs:253-263: the ids of the page whose path does not exist, in order.
RECURSIVE MissingIds(_)
MissingIds(ids) ==
  IF ids = << >> THEN << >>
  ELSE IF ~Exists(PathOf(Head(ids)))
       THEN << Head(ids) >> \o MissingIds(Tail(ids))
       ELSE MissingIds(Tail(ids))

\* The task main.rs:290-294 spawns, with the futures of main.rs:264-288.
BulkTask ==
  LET ids == MissingIds(VideoIdsOf(Unwrap(playlist_videos_info))) IN
  [ BlankTask EXCEPT !.kind = "bulk", !.pc = "start",
                     !.items = [i \in 1..Len(ids) |-> [id |-> ids[i], path |-> PathOf(ids[i])]],
                     !.st = [i \in 1..Len(ids) |-> "todo"],
                     !.log = << "Pending" >> ]

\* main.rs:240-295: the download all button.
UiDownloadAll ==
  /\ upc = "ui"
  /\ upc' = "poll"
  /\ clicked' = << "download all" >>
  /\ PageShown
  /\ Cardinality(Downloads) < MaxDownloads
  /\ chan_status' = Append(chan_status, "Pending")
  /\ tasks' = Spawn(BulkTask)
  /\ UNCHANGED << consumer, chan_client, chan_info, chan_videos, chan_path, client_task, fs >>

\* The task main.rs:320-346 spawns.
SingleTask(id) ==
  [ BlankTask EXCEPT !.kind = "single", !.pc = "start", !.id = id, !.path = PathOf(id) ]

\* Mutant of WatchHit: the test of the path is inverted.
WatchHitInverted(path) == ~Exists(path)

\* main.rs:314: what the watch handler does with the path it built.
WatchHit(path) == Exists(path)

\* main.rs:306-348: the watch button of the video with this id.
UiWatch(id) ==
  /\ upc = "ui"
  /\ upc' = "poll"
  /\ clicked' = << "watch", id >>
  /\ PageShown
  /\ \E i \in 1..Len(Unwrap(playlist_videos_info).videos) :
       Unwrap(playlist_videos_info).videos[i].id = id
  /\ IF WatchHit(PathOf(id))
     THEN /\ chan_path' = Append(chan_path, PathOf(id))
          /\ UNCHANGED tasks
     ELSE /\ Cardinality(Downloads) < MaxDownloads
          /\ tasks' = Spawn(SingleTask(id))
          /\ UNCHANGED chan_path
  /\ UNCHANGED << consumer, chan_client, chan_info, chan_videos, chan_status, client_task, fs >>

\* --------------------------------------------------------- the search task

SetTask(t, task) == [tasks EXCEPT ![t] = task]

\* Whether the two replies fetch_playlist_info reads carry every field a
\* PlaylistInfo needs. The channels call is made only when the playlists
\* reply carries them; channel_reply is None when it is not made.
RepliesCarryInfo(playlist_reply, channel_reply) ==
  /\ playlist_reply.ok
  /\ IsSome(playlist_reply.items)
  /\ Len(Unwrap(playlist_reply.items)) > 0
  /\ IsSome(Unwrap(playlist_reply.items)[1].snippet)
  /\ IsSome(Unwrap(Unwrap(playlist_reply.items)[1].snippet).title)
  /\ IsSome(Unwrap(Unwrap(playlist_reply.items)[1].snippet).channel_id)
  /\ IsSome(channel_reply)
  /\ Unwrap(channel_reply).ok
  /\ IsSome(Unwrap(channel_reply).items)
  /\ Len(Unwrap(Unwrap(channel_reply).items)) > 0
  /\ IsSome(Unwrap(Unwrap(channel_reply).items)[1].snippet)
  /\ IsSome(Unwrap(Unwrap(Unwrap(channel_reply).items)[1].snippet).title)
  /\ IsSome(Unwrap(Unwrap(Unwrap(channel_reply).items)[1].snippet).thumbnails)
  /\ IsSome(Unwrap(Unwrap(Unwrap(Unwrap(channel_reply).items)[1].snippet).thumbnails).default)
  /\ IsSome(Unwrap(Unwrap(Unwrap(Unwrap(Unwrap(channel_reply).items)[1].snippet).thumbnails).default).url)

\* The search task after fetch_playlist_info returned info (main.rs:177-181):
\* the info channel with the info sent if there is one.
InfoSent(info) == IF info = None THEN chan_info ELSE Append(chan_info, Unwrap(info))

\* main.rs:177-181 with fetch_playlist_info (main.rs:441-462) and
\* fetch_channel (main.rs:419-439): the playlists call returns, then the
\* channels call if it is made; the info is sent if there is one and the
\* listing query is issued. The task touches nothing shared between the
\* two calls.
SearchFetchInfo(t) ==
  /\ tasks[t].kind = "search" /\ tasks[t].pc = "info"
  /\ \E pr \in PlaylistReplies(tasks[t].playlist_id) :
       LET snip == PlaylistSnippetOf(pr) IN
         IF snip = None
         THEN /\ chan_info' = InfoSent(None)
              /\ tasks' = SetTask(t, [tasks[t] EXCEPT
                            !.pc = "page",
                            !.query = Some(PageQuery(tasks[t].playlist_id, tasks[t].cursor)),
                            !.replies_carry_info = Some(RepliesCarryInfo(pr, None))])
         ELSE \E cr \in ChannelReplies(Unwrap(snip).channel_id) :
              /\ chan_info' = InfoSent(PlaylistInfoOf(tasks[t].playlist_id, Unwrap(snip), cr))
              /\ tasks' = SetTask(t, [tasks[t] EXCEPT
                            !.pc = "page",
                            !.query = Some(PageQuery(tasks[t].playlist_id, tasks[t].cursor)),
                            !.replies_carry_info = Some(RepliesCarryInfo(pr, Some(cr)))])
  /\ UNCHANGED << frame, consumer, chan_client, chan_videos, chan_path, chan_status,
                  client_task, fs >>

\* The search task after fetch_video_page_with_cursor returned page
\* (main.rs:183-191).
PageSent(page) == IF page = None THEN chan_videos ELSE Append(chan_videos, Unwrap(page))

\* main.rs:183-191 with fetch_video_page_with_cursor (main.rs:464-509): the
\* playlist_items call returns, the page is sent if there is one; the task
\* ends.
SearchFetchPage(t) ==
  /\ tasks[t].kind = "search" /\ tasks[t].pc = "page"
  /\ \E r \in PageReplies(Unwrap(tasks[t].query).playlist_id,
                          Unwrap(tasks[t].query).page_token) :
       chan_videos' = PageSent(FetchVideoPage(r))
  /\ tasks' = SetTask(t, Ended(tasks[t], "done"))
  /\ UNCHANGED << frame, consumer, chan_client, chan_info, chan_path, chan_status,
                  client_task, fs >>

\* ------------------------------------------------ the single download task

\* The task with one more status on its log.
Logged(task, status) == [task EXCEPT !.log = Append(@, status)]

\* What a failed transfer leaves at the path: the file as it was (the
\* transfer failed before it wrote to the file) or a part of the media.
FailedTransferLeaves(path) == {fs[path], "partial"}

\* main.rs:321
DlSendPending(t) ==
  /\ tasks[t].kind = "single" /\ tasks[t].pc = "start"
  /\ chan_status' = Append(chan_status, "Pending")
  /\ tasks' = SetTask(t, [Logged(tasks[t], "Pending") EXCEPT !.pc = "prep"])
  /\ UNCHANGED << frame, consumer, chan_client, chan_info, chan_videos, chan_path,
                  client_task, fs >>

\* main.rs:335-339: the placeholder is written.
DlWritePlaceholder(t) ==
  /\ tasks[t].kind = "single" /\ tasks[t].pc = "prep"
  /\ fs' = WriteEmpty(tasks[t].path)
  /\ tasks' = SetTask(t, [tasks[t] EXCEPT !.pc = "placed"])
  /\ UNCHANGED << frame, consumer, chans, client_task >>

\* main.rs:340
DlSendDownloading(t) ==
  /\ tasks[t].kind = "single" /\ tasks[t].pc = "placed"
  /\ chan_status' = Append(chan_status, "Downloading")
  /\ tasks' = SetTask(t, [Logged(tasks[t], "Downloading") EXCEPT !.pc = "xfer"])
  /\ UNCHANGED << frame, consumer, chan_client, chan_info, chan_videos, chan_path,
                  client_task, fs >>

\* main.rs:342: video.download(&path) returns Ok; the media is at the path.
DlTransferOk(t) ==
  /\ tasks[t].kind = "single" /\ tasks[t].pc = "xfer"
  /\ fs' = [fs EXCEPT ![tasks[t].path] = "full"]
  /\ tasks' = SetTask(t, [tasks[t] EXCEPT !.pc = "got"])
  /\ UNCHANGED << frame, consumer, chans, client_task >>

\* What the task does when video.download(&path) returns Err (main.rs:342-346):
\* the statuses it sends.
OnTransferErr == << >>

\* main.rs:342-346: video.download(&path) returns Err; the task ends.
DlTransferErr(t) ==
  /\ tasks[t].kind = "single" /\ tasks[t].pc = "xfer"
  /\ \E left \in FailedTransferLeaves(tasks[t].path) :
       fs' = [fs EXCEPT ![tasks[t].path] = left]
  /\ chan_status' = chan_status \o OnTransferErr
  /\ tasks' = SetTask(t, Ended([tasks[t] EXCEPT !.log = @ \o OnTransferErr], "failed"))
  /\ UNCHANGED << frame, consumer, chan_client, chan_info, chan_videos, chan_path, client_task >>

\* Mutant of DlSendPath: the path is sent by a retry loop that does not
\* stop after the first send.
DlSendPathTwice(t) ==
  /\ tasks[t].kind = "single" /\ tasks[t].pc = "got"
  /\ chan_path' = chan_path \o << tasks[t].path, tasks[t].path >>
  /\ tasks' = SetTask(t, [tasks[t] EXCEPT !.pc = "path_sent"])
  /\ UNCHANGED << frame, consumer, chan_client, chan_info, chan_videos, chan_status,
                  client_task, fs >>

\* main.rs:343
DlSendPath(t) ==
  /\ tasks[t].kind = "single" /\ tasks[t].pc = "got"
  /\ chan_path' = Append(chan_path, tasks[t].path)
  /\ tasks' = SetTask(t, [tasks[t] EXCEPT !.pc = "path_sent"])
  /\ UNCHANGED << frame, consumer, chan_client, chan_info, chan_videos, chan_status,
                  client_task, fs >>

\* main.rs:344; the task ends.
DlSendFinished(t) ==
  /\ tasks[t].kind = "single" /\ tasks[t].pc = "path_sent"
  /\ chan_status' = Append(chan_status, "Finished")
  /\ tasks' = SetTask(t, Ended(Logged(tasks[t], "Finished"), "done"))
  /\ UNCHANGED << frame, consumer, chan_client, chan_info, chan_videos, chan_path,
                  client_task, fs >>

\* -------------------------------------------------- the bulk download task

\* main.rs:291
BulkSendDownloading(t) ==
  /\ tasks[t].kind = "bulk" /\ tasks[t].pc = "start"
  /\ chan_status' = Append(chan_status, "Downloading")
  /\ tasks' = SetTask(t, [Logged(tasks[t], "Downloading") EXCEPT !.pc = "run"])
  /\ UNCHANGED << frame, consumer, chan_client, chan_info, chan_videos, chan_path,
                  client_task, fs >>

\* main.rs:268-285: join_all polls its futures in order, so item i writes
\* its placeholder and starts its transfer once the items before it have.
BulkWritePlaceholder(t, i) ==
  /\ tasks[t].kind = "bulk" /\ tasks[t].pc = "run"
  /\ i \in 1..Len(tasks[t].items)
  /\ tasks[t].st[i] = "todo"
  /\ \A j \in 1..(i - 1) : tasks[t].st[j] # "todo"
  /\ fs' = WriteEmpty(tasks[t].items[i].path)
  /\ tasks' = SetTask(t, [tasks[t] EXCEPT !.st[i] = "xfer"])
  /\ UNCHANGED << frame, consumer, chans, client_task >>

\* main.rs:285: the transfer of item i returns Ok.
BulkTransferOk(t, i) ==
  /\ tasks[t].kind = "bulk" /\ tasks[t].pc = "run"
  /\ i \in 1..Len(tasks[t].items)
  /\ tasks[t].st[i] = "xfer"
  /\ fs' = [fs EXCEPT ![tasks[t].items[i].path] = "full"]
  /\ tasks' = SetTask(t, [tasks[t] EXCEPT !.st[i] = "ok"])
  /\ UNCHANGED << frame, consumer, chans, client_task >>

\* main.rs:285: the transfer of item i returns Err, which is dropped.
BulkTransferErr(t, i) ==
  /\ tasks[t].kind = "bulk" /\ tasks[t].pc = "run"
  /\ i \in 1..Len(tasks[t].items)
  /\ tasks[t].st[i] = "xfer"
  /\ \E left \in FailedTransferLeaves(tasks[t].items[i].path) :
       fs' = [fs EXCEPT ![tasks[t].items[i].path] = left]
  /\ tasks' = SetTask(t, [tasks[t] EXCEPT !.st[i] = "err"])
  /\ UNCHANGED << frame, consumer, chans, client_task >>

\* Mutant of BatchJoined: the batch is awaited with select_all, which is
\* ready when one future has returned.
BatchJoinedAny(task) == \E i \in 1..Len(task.items) : task.st[i] \in {"ok", "err"}

\* join_all(id_path_map) is ready: every future of the batch has returned.
BatchJoined(task) == \A i \in 1..Len(task.items) : task.st[i] \in {"ok", "err"}

\* main.rs:292-293; the task ends.
BulkSendFinished(t) ==
  /\ tasks[t].kind = "bulk" /\ tasks[t].pc = "run"
  /\ BatchJoined(tasks[t])
  /\ chan_status' = Append(chan_status, "Finished")
  /\ tasks' = SetTask(t, Ended(Logged(tasks[t], "Finished"), "done"))
  /\ UNCHANGED << frame, consumer, chan_client, chan_info, chan_videos, chan_path,
                  client_task, fs >>

\* ---------------------------------------------------------------- the system

\* The steps of the spawned tasks.
SearchStep(t) ==
  \/ SearchFetchInfo(t)
  \/ SearchFetchPage(t)

SingleStep(t) ==
  \/ DlSendPending(t)
  \/ DlWritePlaceholder(t)
  \/ DlSendDownloading(t)
  \/ DlTransferOk(t)
  \/ DlTransferErr(t)
  \/ DlSendPath(t)
  \/ DlSendFinished(t)

BulkStep(t) ==
  \/ BulkSendDownloading(t)
  \/ BulkSendFinished(t)
  \/ \E i \in 1..Cardinality(VideoIds) :
       \/ BulkWritePlaceholder(t, i)
       \/ BulkTransferOk(t, i)
       \/ BulkTransferErr(t, i)

\* The whole program: any click in any frame, any task step.
Next ==
  \/ ClientInitSend
  \/ ClientInitPanic
  \/ Poll
  \/ UiIdle
  \/ \E playlist_id \in PlaylistIds : UiEditPlaylistId(playlist_id)
  \/ UiSearch
  \/ UiBack
  \/ UiDownloadAll
  \/ \E id \in VideoIds : UiWatch(id)
  \/ \E t \in TaskIds : SearchStep(t)
  \/ \E t \in TaskIds : SingleStep(t)
  \/ \E t \in TaskIds : BulkStep(t)

Spec == Init /\ [][Next]_vars

\* The program with a user who browses: the playlist id is edited and
\* searched any number of times, nothing is downloaded.
NextSearch ==
  \/ ClientInitSend
  \/ ClientInitPanic
  \/ Poll
  \/ UiIdle
  \/ \E playlist_id \in PlaylistIds : UiEditPlaylistId(playlist_id)
  \/ UiSearch
  \/ \E t \in TaskIds : SearchStep(t)

SpecSearch == Init /\ [][NextSearch]_vars

\* The program with a user who types a playlist id once, searches once and
\* then downloads and watches.
NextDownload ==
  \/ ClientInitSend
  \/ ClientInitPanic
  \/ Poll
  \/ UiIdle
  \/ (current_playlist_id = "" /\ \E playlist_id \in PlaylistIds : UiEditPlaylistId(playlist_id))
  \/ (tasks = << >> /\ UiSearch)
  \/ UiBack
  \/ UiDownloadAll
  \/ \E id \in VideoIds : UiWatch(id)
  \/ \E t \in TaskIds : SearchStep(t)
  \/ \E t \in TaskIds : SingleStep(t)
  \/ \E t \in TaskIds : BulkStep(t)

SpecDownload == Init /\ [][NextDownload]_vars

\* ------------------------------------------------------------------ claims

\* The downloads of this id that have passed the existence check of its path
\* and have not finished their transfer: single tasks from their spawn to the
\* return of the transfer, and items of a running batch.
ActiveDownloads(id) ==
  { x \in TaskIds \X (0..Cardinality(VideoIds)) :
      LET task == tasks[x[1]] IN
        \/ /\ x[2] = 0
           /\ task.kind = "single"
           /\ task.id = id
           /\ task.pc \in {"start", "prep", "placed", "xfer"}
        \/ /\ x[2] \in 1..Len(task.items)
           /\ task.kind = "bulk"
           /\ task.pc \in {"start", "run"}
           /\ task.items[x[2]].id = id
           /\ task.st[x[2]] \in {"todo", "xfer"} }

\* C1: for every item id, at most one download of that id is active at any
\* time: no two tasks have both passed the existence check of the same path
\* and not yet finished their transfer.
C1_AtMostOneActivePerId ==
  \A id \in VideoIds : Cardinality(ActiveDownloads(id)) <= 1

\* C2: a single-item download task that has ended has put exactly Pending,
\* Downloading and then one of Finished or Failed on the status channel.
C2_SingleStatusSequence ==
  \A t \in TaskIds :
    (tasks[t].kind = "single" /\ tasks[t].pc \in {"done", "failed"})
      => tasks[t].log \in { << "Pending", "Downloading", "Finished" >>,
                            << "Pending", "Downloading", "Failed" >> }

\* C3: the step in which the transfer of a single-item download fails puts
\* Failed on the status channel, puts nothing on the downloaded-path channel
\* and leaves the zero-length placeholder at the path.
C3_FailureAnnounced ==
  [][ \A t \in TaskIds :
        (tasks[t].kind = "single" /\ tasks[t].pc = "xfer" /\ tasks'[t].pc = "failed")
          => /\ chan_status' = Append(chan_status, "Failed")
             /\ chan_path' = chan_path
             /\ fs'[tasks[t].path] = "empty" ]_vars

\* C4: a watch click on an id whose download has completed spawns no task,
\* sends no status and puts exactly <mediaDir>/<id>.mp4 on the
\* downloaded-path channel, each time it is made.
C4_WatchAfterCompleted ==
  [][ \A id \in VideoIds :
        (upc = "ui" /\ clicked' = << "watch", id >> /\ fs[<< "youtube", id, "mp4" >>] = "full")
          => /\ tasks' = tasks
             /\ chan_status' = chan_status
             /\ chan_path' = Append(chan_path, << "youtube", id, "mp4" >>) ]_vars

\* C4 witness: the watch button of v1 was clicked again after its completed
\* download had been delivered once, and the path is queued again.
C4_Witness ==
  /\ clicked = << "watch", "v1" >>
  /\ fs[PathOf("v1")] = "full"
  /\ current_downloaded_path = Some(PathOf("v1"))
  /\ chan_path = << PathOf("v1") >>
  /\ \E t \in TaskIds : tasks[t].kind = "single" /\ tasks[t].pc = "done"

\* C5: whenever a path is put on the downloaded-path channel, the file at
\* that path holds a completed transfer: never the zero-length placeholder
\* of a download in flight or failed.
C5_DeliveredPathsAreComplete ==
  [][ \A path \in Paths :
        chan_path' = Append(chan_path, path) => fs[path] = "full" ]_vars

\* C6: the stored download status is never Finished; a poll that receives a
\* status stores Idle for Finished and the received value otherwise.
C6_FinishedIsStoredAsIdle ==
  [][ /\ download_status # "Finished"
      /\ download_status' # "Finished"
      /\ (upc = "poll" /\ upc' = "ui" /\ chan_status # << >>)
           => download_status' = IF Head(chan_status) = "Finished" THEN "Idle"
                                 ELSE Head(chan_status) ]_vars

\* C6 witness: the Finished of the only download has been received (the
\* status channel is drained) and the stored status is Idle.
C6_Witness ==
  /\ Len(tasks) = 2
  /\ tasks[2].kind = "single" /\ tasks[2].pc = "done"
  /\ chan_status = << >>
  /\ download_status = "Idle"

C8_CursorThreaded ==
  \A t \in TaskIds :
    (tasks[t].kind = "search" /\ tasks[t].pc = "page")
      => Unwrap(tasks[t].query).page_token = tasks[t].seen_next

\* The PlaylistInfo the remote's data gives for a playlist, every field set.
FullInfo(playlist_id) ==
  [ id |-> playlist_id,
    title |-> << "title", playlist_id >>,
    channel |-> [ id |-> << "channel", playlist_id >>,
                  name |-> << "name", << "channel", playlist_id >> >>,
                  avatar_url |-> << "avatar", << "channel", playlist_id >> >> ] ]

\* The PlaylistVideos the remote's data gives for a listing query: the
\* well-formed items of the page, and its continuation token.
FullVideo(id) == [id |-> id, title |-> << "title", id >>, thumbnail_url |-> << "thumb", id >>]

FullPage(query) ==
  IF query.page_token = None /\ query.playlist_id = "PL1"
    THEN [videos |-> << FullVideo("v1"), FullVideo("v2") >>, next_cursor |-> << "tok2" >>]
  ELSE IF query.page_token = None /\ query.playlist_id = "PL2"
    THEN [videos |-> << FullVideo("v2") >>, next_cursor |-> << "tok2" >>]
  ELSE [videos |-> << >>, next_cursor |-> << >>]

\* C9: a search task whose replies lack a required field of the playlist or
\* of the channel puts nothing on the info channel, and one whose replies
\* carry them all puts the whole PlaylistInfo; its listing puts nothing or
\* the whole page on the page channel; the stored info and the stored page
\* change only by receiving a message, so an absent result leaves them as
\* they were.
C9_AbsentResultIsolation ==
  [][ /\ \A t \in TaskIds :
           (tasks[t].kind = "search" /\ tasks[t].pc = "info" /\ tasks'[t].pc = "page")
             => IF Unwrap(tasks'[t].replies_carry_info)
                THEN chan_info' = Append(chan_info, FullInfo(tasks[t].playlist_id))
                ELSE chan_info' = chan_info
      /\ \A t \in TaskIds :
           (tasks[t].kind = "search" /\ tasks[t].pc = "page" /\ tasks'[t].pc = "done")
             => \/ chan_videos' = chan_videos
                \/ chan_videos' = Append(chan_videos, FullPage(Unwrap(tasks[t].query)))
      /\ playlist_info' # playlist_info
           => /\ upc = "poll" /\ chan_info # << >>
              /\ playlist_info' = Some(Head(chan_info))
              /\ \E playlist_id \in PlaylistIds : Head(chan_info) = FullInfo(playlist_id)
      /\ playlist_videos_info' # playlist_videos_info
           => /\ upc = "poll" /\ chan_videos # << >>
              /\ playlist_videos_info' = Some(Head(chan_videos)) ]_vars

\* C9 witness: a search whose info fetch was absent has sent nothing while
\* the info of an earlier search stays displayed.
C9_Witness ==
  /\ playlist_info # None
  /\ chan_info = << >>
  /\ \E t \in TaskIds :
       /\ tasks[t].kind = "search" /\ tasks[t].pc = "page"
       /\ tasks[t].replies_carry_info = Some(FALSE)
       /\ \A u \in TaskIds : u # t => tasks[u].pc = "done"

\* What a step may do to one channel: leave it, append one message at its
\* tail, or - in the poll of a frame - remove its head.
FifoStep(ch, ch_next) ==
  \/ ch_next = ch
  \/ Len(ch_next) = Len(ch) + 1 /\ ch_next = Append(ch, ch_next[Len(ch_next)])
  \/ upc = "poll" /\ upc' = "ui" /\ ch # << >> /\ ch_next = Tail(ch)

C11_BulkSkipsExisting ==
  [][ /\ (upc = "ui" /\ clicked' = << "download all" >>)
           => /\ Len(tasks') = Len(tasks) + 1
              /\ fs' = fs
              /\ LET batch == tasks'[Len(tasks')]
                     page == Unwrap(playlist_videos_info).videos
                 IN /\ batch.kind = "bulk"
                    /\ \A id \in VideoIds :
                         (\E i \in 1..Len(batch.items) : batch.items[i].id = id)
                           <=> /\ \E k \in 1..Len(page) : page[k].id = id
                               /\ fs[<< "youtube", id, "mp4" >>] = "absent"
                    /\ \A i \in 1..Len(batch.items) :
                         batch.items[i].path = << "youtube", batch.items[i].id, "mp4" >>
      /\ \A t \in TaskIds : \A p \in Paths :
           (tasks[t].kind = "bulk" /\ tasks'[t] # tasks[t] /\ fs'[p] # fs[p])
             => \E i \in 1..Len(tasks[t].items) : tasks[t].items[i].path = p ]_vars

\* C11 witness: download all was clicked on a page showing v1 and v2 while
\* the file of v1 held a completed download: the batch holds v2 alone.
C11_Witness ==
  /\ clicked = << "download all" >>
  /\ playlist_videos_info # None
  /\ Len(Unwrap(playlist_videos_info).videos) = 2
  /\ fs[PathOf("v1")] = "full"
  /\ \A u \in 1..(Len(tasks) - 1) : tasks[u].pc = "done"
  /\ tasks[Len(tasks)].kind = "bulk"
  /\ Len(tasks[Len(tasks)].items) = 1
  /\ tasks[Len(tasks)].items[1].id = "v2"

\* C12: whenever a frame begins its polls can be taken, and whenever they
\* have been taken the frame can end, whatever the channels hold and
\* whatever tasks are in flight; a poll of an empty channel leaves the
\* channel and its consumer field as they were; and a step that spawns a
\* task ends the frame with the new task at its first step: the handler
\* waits for nothing the task does.
C12_PollNeverBlocks ==
  /\ [](upc = "poll" => ENABLED Poll)
  /\ [](upc = "ui" => ENABLED UiIdle)
  /\ [][ /\ (upc = "poll" /\ upc' = "ui")
              => /\ chan_client = << >> => (yt_client' = yt_client /\ chan_client' = << >>)
                 /\ chan_info = << >> => (playlist_info' = playlist_info /\ chan_info' = << >>)
                 /\ chan_videos = << >>
                      => (playlist_videos_info' = playlist_videos_info /\ chan_videos' = << >>)
                 /\ chan_status = << >>
                      => (download_status' = download_status /\ chan_status' = << >>)
                 /\ chan_path = << >>
                      => /\ current_downloaded_path' = current_downloaded_path
                         /\ current_watching_path' = current_watching_path
                         /\ video_player' = video_player
                         /\ chan_path' = << >>
         /\ Len(tasks') # Len(tasks)
              => /\ upc = "ui" /\ upc' = "poll"
                 /\ Len(tasks') = Len(tasks) + 1
                 /\ tasks'[Len(tasks')].pc \in {"info", "start"}
                 /\ \A t \in TaskIds : tasks'[t] = tasks[t] ]_vars

\* C12 witness: the polls of a frame are done and all five channels are
\* empty while a single download and a batch are both transferring.
C12_Witness ==
  /\ upc = "ui"
  /\ clicked = None
  /\ chan_client = << >> /\ chan_info = << >> /\ chan_videos = << >>
  /\ chan_status = << >> /\ chan_path = << >>
  /\ \E t \in TaskIds : tasks[t].kind = "single" /\ tasks[t].pc = "xfer"
  /\ \E t \in TaskIds :
       /\ tasks[t].kind = "bulk" /\ tasks[t].pc = "run"
       /\ \E i \in 1..Len(tasks[t].items) : tasks[t].st[i] = "xfer"

\* C13: a single-item download task writes the zero-length placeholder in
\* the step after it has sent Pending and sends Downloading only after that
\* write; no step removes a file; and while the file of an id exists, a watch
\* click on that id spawns no task and a download all click builds a batch
\* without that id.
C13_PlaceholderReserves ==
  [][ /\ \A t \in TaskIds :
           tasks[t].kind = "single" =>
             /\ (tasks[t].pc = "prep" /\ tasks'[t].pc # "prep")
                  => /\ tasks[t].log = << "Pending" >>
                     /\ tasks'[t].log = << "Pending" >>
                     /\ chan_status' = chan_status
                     /\ fs' = [fs EXCEPT ![tasks[t].path] = "empty"]
                     /\ tasks'[t].pc = "placed"
             /\ tasks'[t].pc = "placed" => tasks[t].pc \in {"prep", "placed"}
             /\ (Len(tasks[t].log) = 1 /\ Len(tasks'[t].log) = 2)
                  => /\ tasks[t].pc = "placed"
                     /\ fs[tasks[t].path] # "absent"
                     /\ chan_status' = Append(chan_status, "Downloading")
             /\ (tasks[t].pc = "start" /\ tasks'[t] # tasks[t])
                  => /\ fs' = fs
                     /\ chan_status' = Append(chan_status, "Pending")
      /\ \A p \in Paths : fs[p] # "absent" => fs'[p] # "absent"
      /\ \A id \in VideoIds :
           (upc = "ui" /\ fs[<< "youtube", id, "mp4" >>] # "absent")
             => /\ clicked' = << "watch", id >> => tasks' = tasks
                /\ clicked' = << "download all" >>
                     => \A i \in 1..Len(tasks'[Len(tasks')].items) :
                          tasks'[Len(tasks')].items[i].id # id ]_vars

\* C13 witness: watch was clicked on v1 while the only download of v1 had
\* written its placeholder and had not finished its transfer: no second task
\* was spawned.
C13_Witness ==
  /\ clicked = << "watch", "v1" >>
  /\ fs[PathOf("v1")] = "empty"
  /\ Len(tasks) = 2
  /\ tasks[2].kind = "single" /\ tasks[2].id = "v1" /\ tasks[2].pc \in {"placed", "xfer"}
  /\ chan_path = << PathOf("v1") >>

\* C14: a single-item download task puts a message on the downloaded-path
\* channel in one step only: the step after its transfer returned Ok, which
\* appends exactly <mediaDir>/<id>.mp4 of its id and comes before the step
\* that sends its Finished; a task whose transfer failed has sent no path;
\* no step of a batch changes the downloaded-path channel.
C14_PathOnceBeforeFinished ==
  [][ \A t \in TaskIds :
        /\ (tasks[t].kind = "single" /\ tasks'[t] # tasks[t])
             => /\ tasks[t].pc = "got"
                     => /\ chan_path' = Append(chan_path, << "youtube", tasks[t].id, "mp4" >>)
                        /\ chan_status' = chan_status
                        /\ tasks'[t].pc = "path_sent"
                        /\ tasks[t].log = << "Pending", "Downloading" >>
                /\ tasks[t].pc # "got" => chan_path' = chan_path
                /\ tasks'[t].pc = "path_sent" => tasks[t].pc = "got"
                /\ tasks'[t].pc = "got" => (tasks[t].pc = "xfer" /\ fs'[tasks[t].path] = "full")
                /\ tasks'[t].pc = "done"
                     => /\ tasks[t].pc = "path_sent"
                        /\ chan_status' = Append(chan_status, "Finished")
        /\ (tasks[t].kind = "bulk" /\ tasks'[t] # tasks[t]) => chan_path' = chan_path ]_vars

\* C14 witness: the only download, of v1, has succeeded and ended: the
\* consumer has received its path and its Finished.
C14_Witness ==
  /\ Len(tasks) = 2
  /\ tasks[2].kind = "single" /\ tasks[2].pc = "done"
  /\ current_downloaded_path = Some(PathOf("v1"))
  /\ chan_path = << >>
  /\ download_status = "Idle"
  /\ chan_status = << >>
  /\ fs[PathOf("v1")] = "full"

\* C15: the stored download status changes only in the poll step of a
\* frame, only when the status channel holds a message, and then to the
\* transform of that message, which the step removes; a button handler, a
\* step of a task and a poll that finds the status channel empty leave it
\* as it was.
C15_StatusOnlyByMessage ==
  [][ /\ download_status' # download_status
           => /\ upc = "poll" /\ upc' = "ui"
              /\ chan_status # << >>
              /\ chan_status' = Tail(chan_status)
              /\ download_status' = IF Head(chan_status) = "Finished" THEN "Idle"
                                    ELSE Head(chan_status)
      /\ upc = "ui" => download_status' = download_status
      /\ (tasks' # tasks \/ client_task' # client_task) => download_status' = download_status
      /\ chan_status = << >> => download_status' = download_status ]_vars

\* C15 witness: download all was clicked while the stored status was
\* Downloading: the handler queued its Pending behind the Finished of the
\* download before it and left the stored status alone.
C15_Witness ==
  /\ clicked = << "download all" >>
  /\ download_status = "Downloading"
  /\ chan_status = << "Finished", "Pending" >>

\* A transfer is in progress: video.download has been called and has not
\* returned, in a single-item task or in an item of a batch.
TransferInProgress ==
  \E t \in TaskIds :
    \/ tasks[t].kind = "single" /\ tasks[t].pc = "xfer"
    \/ /\ tasks[t].kind = "bulk" /\ tasks[t].pc = "run"
       /\ \E i \in 1..Len(tasks[t].items) : tasks[t].st[i] = "xfer"

\* C16: whenever the stored status is Idle and the status channel is empty,
\* no transfer is in progress.
C16_IdleMeansNoTransfer ==
  (download_status = "Idle" /\ chan_status = << >>) => ~TransferInProgress

\* C17: whenever the consumer holds both a PlaylistInfo and a page, the page
\* is the listing of the playlist the info names. (The remote's first pages
\* differ from playlist to playlist, and every query asks for a first page,
\* so a stored page tells which playlist it was fetched for.)
C17_InfoAndPageOfSamePlaylist ==
  (playlist_info # None /\ playlist_videos_info # None)
    => Unwrap(playlist_videos_info)
         = FullPage([playlist_id |-> Unwrap(playlist_info).id, page_token |-> None])

\* C18: a search click made while the consumer holds no client handle
\* spawns no task and leaves all five channels as they were, and one made
\* with the handle spawns one search task; a handle the consumer holds is
\* never replaced or cleared; every search task in flight holds the handle
\* the consumer holds.
C18_SearchNeedsClient ==
  [][ /\ (upc = "ui" /\ clicked' = << "search" >>)
           => /\ chans' = chans
              /\ IF yt_client = None
                 THEN tasks' = tasks
                 ELSE /\ Len(tasks') = Len(tasks) + 1
                      /\ tasks'[Len(tasks')].kind = "search"
                      /\ tasks'[Len(tasks')].pc = "info"
      /\ yt_client # None => yt_client' = yt_client
      /\ \A t \in DOMAIN tasks' :
           (tasks'[t].kind = "search" /\ tasks'[t].pc \in {"info", "page"})
             => yt_client' = Some(tasks'[t].yt_client) ]_vars

\* C18 witness: search was clicked before the consumer had received the
\* handle, which waits in the client channel: nothing was spawned or sent.
C18_Witness ==
  /\ clicked = << "search" >>
  /\ yt_client = None
  /\ chan_client = << "client" >>
  /\ tasks = << >>
  /\ chan_info = << >> /\ chan_videos = << >> /\ chan_status = << >> /\ chan_path = << >>

\* C19: the player is present exactly when a watched path is set, and it
\* plays that path; a poll that receives a path while something is watched
\* leaves the player and the watched path as they were and stores the
\* received path as the last downloaded one; a back click clears the player
\* and the watched path together.
C19_PlayerIffWatching ==
  [][ /\ (video_player = None) <=> (current_watching_path = None)
      /\ (video_player' = None) <=> (current_watching_path' = None)
      /\ video_player' # None
           => video_player' = Some(<< "player", Unwrap(current_watching_path') >>)
      /\ (upc = "poll" /\ upc' = "ui" /\ chan_path # << >> /\ current_watching_path # None)
           => /\ video_player' = video_player
              /\ current_watching_path' = current_watching_path
              /\ current_downloaded_path' = Some(Head(chan_path))
      /\ (upc = "ui" /\ clicked' = << "back" >>)
           => /\ video_player # None
              /\ video_player' = None
              /\ current_watching_path' = None
              /\ current_downloaded_path' = current_downloaded_path ]_vars

\* C19 witness: while v1 is being watched the path of v2 has been received:
\* it is the last downloaded path, and the player still plays v1.
C19_Witness ==
  /\ upc = "ui"
  /\ current_watching_path = Some(PathOf("v1"))
  /\ video_player = Some(<< "player", PathOf("v1") >>)
  /\ current_downloaded_path = Some(PathOf("v2"))
  /\ chan_path = << >>

====
